---- MODULE Spec2Model ----
(***************************************************************************)
(* Model of visualizations/generate_business_charts.py: one process run    *)
(* of main() = load_and_prepare_data() followed by the three chart         *)
(* builders inside one try/except.  Numeric columns are modelled over      *)
(* integer sample points that contain every breakpoint of pd.cut and       *)
(* a neighbour on each side.  Display strings are written without their    *)
(* leading emoji.                                                          *)
(***************************************************************************)
EXTENDS Integers, Sequences, FiniteSets, TLC

VARIABLES csv, pc, df, archetype_names, console, started, completed,
          written, propagated, uncaught, previous, confusion_data

vars == <<csv, pc, df, archetype_names, console, started, completed,
          written, propagated, uncaught, previous, confusion_data>>

\* Largest number of rows of the input table.
MaxRows == 2

----------------------------------------------------------------------------
\* Python values

\* Python's None; Some(v) is any other value.
None == <<>>

Some(v) == <<v>>

IsNone(x) == x = None

\* pandas' missing value in a categorical / object column.
NaN == "NaN"

\* A call that raised exception class e / a call that returned v.
Raise(e) == [raised |-> TRUE, exc |-> e, value |-> None]

Return(v) == [raised |-> FALSE, exc |-> "", value |-> Some(v)]

\* The exception classes the calls of this script raise; all derive from
\* Exception.
ExceptionClasses ==
  {"FileNotFoundError", "ParserError", "KeyError", "ValueError", "OSError",
   "TypeError"}

----------------------------------------------------------------------------
\* Input data

ColSpend == "Avg_additional_charges_total"

ColFreq == "Avg_class_frequency_current_month"

ColLifetime == "Lifetime"

ColChurn == "Churn"

ColAge == "Age"

ColContract == "Contract_period"

AllColumns == {ColSpend, ColFreq, ColLifetime, ColChurn, ColAge, ColContract}

\* Sample points of the three binned columns: below the range, the lowest
\* breakpoint, an interior point, every interior breakpoint, the top
\* breakpoint and above the range.
SpendSamples == <<-1, 0, 50, 100, 200, 300, 600, 601>>

FreqSamples == <<10, 3, 11, 2, 1, 0, -1, 5>>

LifetimeSamples == <<3, 0, 6, 12, 50, 51, -1, 2>>

ChurnSamples == <<0, 1, 1, 0, 1, 0, 0, 1>>

NSamples == Len(SpendSamples)

SampleRow(k) ==
  [spend |-> SpendSamples[k], freq |-> FreqSamples[k],
   life |-> LifetimeSamples[k], churn |-> ChurnSamples[k]]

\* The input tables: n consecutive sample rows starting at sample k.
Tables ==
  { [i \in 1..n |-> SampleRow(((k + i - 2) % NSamples) + 1)] :
      n \in 0..MaxRows, k \in 1..NSamples }

\* The file ../datasets/gym_churn_us.csv as the run finds it.
Files ==
  { [status |-> s, columns |-> c, rows |-> t] :
      s \in {"ok"}, c \in {AllColumns} \cup { AllColumns \ {x} : x \in AllColumns },
      t \in Tables }
  \cup
  { [status |-> s, columns |-> {}, rows |-> <<>>] : s \in {"missing", "malformed"} }

----------------------------------------------------------------------------
\* load_and_prepare_data

read_csv(file) ==
  IF file.status = "missing" THEN Raise("FileNotFoundError")
  ELSE IF file.status = "malformed" THEN Raise("ParserError")
  ELSE Return(file.rows)

spend_bins == <<0, 100, 200, 300, 600>>

spend_labels == <<"Basic", "Standard", "Premium", "VIP">>

freq_bins == <<0, 1, 2, 3, 10>>

freq_labels == <<"Low", "Moderate", "High", "Super Active">>

lifetime_bins == <<0, 3, 6, 12, 50>>

lifetime_labels ==
  <<"New (0-3m)", "Developing (3-6m)", "Established (6-12m)", "Veteran (12m+)">>

\* Variants of Cut: out-of-range values labelled "Unknown"; right=False;
\* out-of-range values clipped into the end bins; include_lowest=True.
CutUnknown(x, bins, labels) ==
  LET hit == { i \in 1..(Len(bins) - 1) : bins[i] < x /\ x <= bins[i + 1] }
  IN IF hit = {} THEN "Unknown" ELSE labels[CHOOSE i \in hit : TRUE]

CutLeftClosed(x, bins, labels) ==
  LET hit == { i \in 1..(Len(bins) - 1) : bins[i] <= x /\ x < bins[i + 1] }
  IN IF hit = {} THEN NaN ELSE labels[CHOOSE i \in hit : TRUE]

CutClipped(x, bins, labels) ==
  LET hit == { i \in 1..(Len(bins) - 1) : bins[i] < x /\ x <= bins[i + 1] }
  IN IF hit # {} THEN labels[CHOOSE i \in hit : TRUE]
     ELSE IF x <= bins[1] THEN labels[1] ELSE labels[Len(labels)]

CutIncludeLowest(x, bins, labels) ==
  LET hit == { i \in 1..(Len(bins) - 1) :
                 /\ (bins[i] < x \/ (i = 1 /\ bins[i] = x))
                 /\ x <= bins[i + 1] }
  IN IF hit = {} THEN NaN ELSE labels[CHOOSE i \in hit : TRUE]

\* pd.cut(x, bins, labels) with its defaults right=True, include_lowest=False:
\* bin i is (bins[i], bins[i+1]], anything else is NaN.
Cut(x, bins, labels) ==
  LET hit == { i \in 1..(Len(bins) - 1) : bins[i] < x /\ x <= bins[i + 1] }
  IN IF hit = {} THEN NaN ELSE labels[CHOOSE i \in hit : TRUE]

\* cluster_probabilities, in thousandths.
cluster_probabilities == [c \in 0..4 |-> <<158, 222, 216, 307, 97>>[c + 1]]

\* The first doubles of numpy's MT19937 stream after np.random.seed(42),
\* truncated to thousandths (0.3745..., 0.9507..., 0.7319..., 0.5986...,
\* 0.1560..., 0.1559..., 0.0580..., 0.8661...).
seed42_stream == <<374, 950, 731, 598, 156, 155, 58, 866>>

\* p.cumsum() of np.random.choice.
RECURSIVE cdf(_)
cdf(c) == IF c = 0 THEN cluster_probabilities[0]
          ELSE cdf(c - 1) + cluster_probabilities[c]

\* Variant of choice whose draws depend on the row's own attributes.
choiceByData(rows) ==
  [i \in 1..Len(rows) |->
     LET u == (seed42_stream[i] + rows[i].spend + 1) % 1000
     IN Cardinality({ c \in 0..4 : cdf(c) <= u })]

\* np.random.choice(keys, size=len(df), p=values) after the seed: one uniform
\* draw per position, mapped through cdf.searchsorted(u, side='right').
choice(rows) ==
  [i \in 1..Len(rows) |->
     LET u == seed42_stream[i]
     IN Cardinality({ c \in 0..4 : cdf(c) <= u })]

\* Variant of the dict without an entry for id 4.
archetype_names_missing_key ==
  [c \in 0..3 |->
     <<"Social Connectors", "Active Independents", "Premium Loyalists",
       "Flight Risks">>[c + 1]]

\* archetype_names (lines 93-99)
archetype_names_dict ==
  [c \in 0..4 |->
     <<"Social Connectors", "Active Independents", "Premium Loyalists",
       "Flight Risks", "Decision Pending">>[c + 1]]

\* Series.map(dict): a key the dict lacks maps to NaN.
MapDict(d, k) == IF k \in DOMAIN d THEN d[k] ELSE NaN

\* The body of the try block, lines 52-104.
load_body(file) ==
  LET r == read_csv(file) IN
  IF r.raised THEN r
  ELSE IF ColSpend \notin file.columns THEN Raise("KeyError")
  ELSE IF ColFreq \notin file.columns THEN Raise("KeyError")
  ELSE IF ColLifetime \notin file.columns THEN Raise("KeyError")
  ELSE
    LET rows == r.value[1]
        clusters == choice(rows)
        table ==
          [i \in 1..Len(rows) |->
             [spend |-> rows[i].spend, freq |-> rows[i].freq,
              life |-> rows[i].life, churn |-> rows[i].churn,
              customer_value_tier |-> Cut(rows[i].spend, spend_bins, spend_labels),
              activity_level |-> Cut(rows[i].freq, freq_bins, freq_labels),
              tenure_category |->
                Cut(rows[i].life, lifetime_bins, lifetime_labels),
              Cluster |-> clusters[i],
              Archetype |-> MapDict(archetype_names_dict, clusters[i])]]
    IN Return([df |-> Some(table), names |-> Some(archetype_names_dict)])

\* Variant: except KeyError.
LoaderCatchesKeyErrorOnly(e) == e = "KeyError"

\* except Exception (line 106)
LoaderCatches(e) == e \in ExceptionClasses

load_and_prepare_data(file) ==
  LET b == load_body(file) IN
  IF ~b.raised
    THEN [raised |-> FALSE, exc |-> "", df |-> b.value[1].df,
          names |-> b.value[1].names,
          log |-> <<"Loading and preparing data", "Dataset loaded",
                    "Data preparation completed">>]
  ELSE
    LET printed == IF read_csv(file).raised
                     THEN <<"Loading and preparing data">>
                     ELSE <<"Loading and preparing data", "Dataset loaded">>
    IN IF LoaderCatches(b.exc)
         THEN [raised |-> FALSE, exc |-> "", df |-> None, names |-> None,
               log |-> Append(printed, "Error loading data")]
         ELSE [raised |-> TRUE, exc |-> b.exc, df |-> None, names |-> None,
               log |-> printed]

----------------------------------------------------------------------------
\* Chart builders

ExecutiveDashboard == "create_executive_dashboard"

ModelPerformance == "create_model_performance_chart"

CustomerSegmentation == "create_customer_segmentation_chart"

Builders == <<ExecutiveDashboard, ModelPerformance, CustomerSegmentation>>

OutputFile(b) ==
  IF b = ExecutiveDashboard THEN "visualizations/executive_dashboard.png"
  ELSE IF b = ModelPerformance THEN "visualizations/model_performance.png"
  ELSE "visualizations/customer_segmentation.png"

OutputFiles == { OutputFile(Builders[i]) : i \in 1..3 }

\* plt.savefig(path): the write fails with OSError when the path is not
\* writable.
savefig(path, writable) == IF writable THEN Return(path) ELSE Raise("OSError")

\* df['Churn'] of a None raises TypeError, of a table without the column
\* KeyError; ax.pie with two labels needs exactly two churn classes.
create_executive_dashboard(dfv, cols, writable) ==
  IF IsNone(dfv) THEN Raise("TypeError")
  ELSE IF ColChurn \notin cols THEN Raise("KeyError")
  ELSE IF Cardinality({ dfv[1][i].churn : i \in 1..Len(dfv[1]) }) # 2
    THEN Raise("ValueError")
  ELSE savefig(OutputFile(ExecutiveDashboard), writable)

\* The Logistic Regression entries of accuracy, precision and recall
\* (91.9, 86.8, 81.9), in thousandths.
accuracy_lr == 919

precision_lr == 868

recall_lr == 819

\* The simulated confusion matrix.  The float literals 0.265, 0.819 and 0.132
\* are written in thousandths; int() of a non-negative product truncates.
total_test == 1000

actual_churn == (total_test * 265) \div 1000

predicted_churn ==
  (actual_churn * 819 + (total_test - actual_churn) * 132) \div 1000

true_positive == (actual_churn * 819) \div 1000

false_negative == actual_churn - true_positive

false_positive == predicted_churn - true_positive

true_negative == total_test - actual_churn - false_positive

\* np.array([[TN, FP], [FN, TP]])
confusion_matrix ==
  <<<<true_negative, false_positive>>, <<false_negative, true_positive>>>>

\* Uses only literals; df is not read.
create_model_performance_chart(dfv, writable) ==
  savefig(OutputFile(ModelPerformance), writable)

create_customer_segmentation_chart(dfv, names, cols, writable) ==
  IF IsNone(dfv) THEN Raise("TypeError")
  ELSE IF IsNone(names) THEN Raise("TypeError")
  ELSE IF \E i \in 1..Len(dfv[1]) : dfv[1][i].Cluster \notin DOMAIN names[1]
    THEN Raise("KeyError")
  ELSE IF ColChurn \notin cols THEN Raise("KeyError")
  ELSE IF ColAge \notin cols THEN Raise("KeyError")
  ELSE IF ColContract \notin cols THEN Raise("KeyError")
  ELSE savefig(OutputFile(CustomerSegmentation), writable)

----------------------------------------------------------------------------
\* main

\* Variant: except KeyError.
MainCatchesKeyErrorOnly(e) == e = "KeyError"

\* except Exception (line 468)
MainCatches(e) == e \in ExceptionClasses

\* Variant without the None check.
AfterLoadUnchecked(dfv) == ExecutiveDashboard

\* if df is None: return (lines 447-449)
AfterLoad(dfv) == IF IsNone(dfv) THEN "done" ELSE ExecutiveDashboard

\* Variant with one try/except per builder.
AfterBuilderIsolated(b, raised) ==
  IF b = ExecutiveDashboard THEN ModelPerformance
  ELSE IF b = ModelPerformance THEN CustomerSegmentation
  ELSE "done"

\* Statement order inside the single try block (lines 452-469): a raise
\* leaves the block.
AfterBuilder(b, raised) ==
  IF raised THEN "done"
  ELSE IF b = ExecutiveDashboard THEN ModelPerformance
  ELSE IF b = ModelPerformance THEN CustomerSegmentation
  ELSE "done"

ClusterColumn(table) == [i \in 1..Len(table) |-> table[i].Cluster]

\* No file has been looked at while no run is in progress.
NoFile == [status |-> "missing", columns |-> {}, rows |-> <<>>]

\* No process is running.
Init ==
  /\ csv = NoFile
  /\ pc = "idle"
  /\ df = None
  /\ archetype_names = None
  /\ console = <<>>
  /\ started = <<>>
  /\ completed = <<>>
  /\ written = {}
  /\ propagated = {}
  /\ uncaught = FALSE
  /\ previous = None
  /\ confusion_data = None

\* python generate_business_charts.py: the run finds some input file and
\* some output directory (lines 471-472).
Start ==
  /\ pc = "idle"
  /\ csv' \in Files
  /\ pc' = "load"
  /\ UNCHANGED <<df, archetype_names, console, started, completed, written,
                 propagated, uncaught, previous, confusion_data>>

\* Lines 441-449.
Load ==
  /\ pc = "load"
  /\ LET r == load_and_prepare_data(csv) IN
       /\ df' = r.df
       /\ archetype_names' = r.names
       /\ uncaught' = r.raised
       /\ propagated' = IF r.raised THEN propagated \cup {"load_and_prepare_data"}
                                    ELSE propagated
       /\ pc' = IF r.raised THEN "done" ELSE AfterLoad(r.df)
       /\ console' = <<"BUSINESS VISUALIZATION GENERATOR">> \o r.log \o
                       (IF ~r.raised /\ AfterLoad(r.df) = "done"
                          THEN <<"Failed to load data. Exiting">> ELSE <<>>)
  /\ UNCHANGED <<csv, started, completed, written, previous, confusion_data>>

\* One call of a builder inside the try block and what follows it.
BuilderStep(b, r) ==
  /\ pc = b
  /\ started' = Append(started, b)
  /\ completed' = IF r.raised THEN completed ELSE Append(completed, b)
  /\ written' = IF r.raised THEN written ELSE written \cup {r.value[1]}
  /\ propagated' = IF r.raised THEN propagated \cup {b} ELSE propagated
  /\ uncaught' = (r.raised /\ ~MainCatches(r.exc))
  /\ pc' = AfterBuilder(b, r.raised)
  /\ console' =
       console \o <<"Creating " \o b>> \o
       (IF r.raised
          THEN (IF MainCatches(r.exc)
                  THEN <<"Error generating visualizations">> ELSE <<>>)
          ELSE <<"Saved " \o r.value[1]>>) \o
       (IF ~r.raised /\ b = CustomerSegmentation
          THEN <<"ALL VISUALIZATIONS GENERATED SUCCESSFULLY">> ELSE <<>>)
  /\ confusion_data' = IF b = ModelPerformance THEN Some(confusion_matrix)
                       ELSE confusion_data
  /\ UNCHANGED <<csv, df, archetype_names, previous>>

\* Line 453.
Dashboard ==
  \E writable \in BOOLEAN :
    BuilderStep(ExecutiveDashboard,
                create_executive_dashboard(df, csv.columns, writable))

\* Line 454.
Performance ==
  \E writable \in BOOLEAN :
    BuilderStep(ModelPerformance, create_model_performance_chart(df, writable))

\* Line 455.
Segmentation ==
  \E writable \in BOOLEAN :
    BuilderStep(CustomerSegmentation,
                create_customer_segmentation_chart(df, archetype_names,
                                                   csv.columns, writable))

\* The process ends.  previous remembers the input and the Cluster column of
\* the last run that loaded a table, for comparing runs.
Exit ==
  /\ pc = "done"
  /\ csv' = NoFile
  /\ pc' = "idle"
  /\ df' = None
  /\ archetype_names' = None
  /\ console' = <<>>
  /\ started' = <<>>
  /\ completed' = <<>>
  /\ written' = {}
  /\ propagated' = {}
  /\ uncaught' = FALSE
  /\ confusion_data' = None
  /\ previous' = IF IsNone(df) THEN previous
                 ELSE Some([rows |-> csv.rows, Cluster |-> ClusterColumn(df[1])])

Next == Start \/ Load \/ Dashboard \/ Performance \/ Segmentation \/ Exit

Spec == Init /\ [][Next]_vars

\* A sequential program: once started, every statement of main() that is
\* reached is executed.
FairSpec ==
  /\ Spec
  /\ WF_vars(Load)
  /\ WF_vars(Dashboard)
  /\ WF_vars(Performance)
  /\ WF_vars(Segmentation)

----------------------------------------------------------------------------
\* Properties

\* load_and_prepare_data has returned in the current run.
Loaded == pc \notin {"idle", "load"}

HasTable == ~IsNone(df)

InSeq(x, q) == \E i \in 1..Len(q) : q[i] = x

\* The failures the loader is documented to have: file missing or malformed,
\* or a column that is binned is absent.
LoadFails(file) ==
  \/ file.status # "ok"
  \/ \E c \in {ColSpend, ColFreq, ColLifetime} : c \notin file.columns

\* C1: whenever load_and_prepare_data fails (file missing or malformed, or a
\* binned column such as Lifetime absent) it returns (None, None), and main()
\* starts no chart builder and writes no image file in that run.
C1_LoadFailureAborts ==
  (Loaded /\ (LoadFails(csv) \/ IsNone(df))) =>
     /\ IsNone(df)
     /\ IsNone(archetype_names)
     /\ started = <<>>
     /\ written = {}
     /\ pc = "done"

C1_Witness ==
  /\ pc = "done"
  /\ csv.status = "ok"
  /\ ColLifetime \notin csv.columns
  /\ Len(csv.rows) > 0
  /\ IsNone(df)
  /\ IsNone(archetype_names)
  /\ InSeq("Error loading data", console)
  /\ InSeq("Failed to load data. Exiting", console)

\* C2: the builders are started in the order create_executive_dashboard,
\* create_model_performance_chart, create_customer_segmentation_chart; a
\* builder is started only after every earlier one has returned, its image
\* written; after a raise in builder 2, builder 3 is never started.
C2_BuildersInOrder ==
  /\ Len(started) <= 3
  /\ \A i \in 1..Len(started) :
       /\ started[i] = Builders[i]
       /\ \A j \in 1..(i - 1) :
            /\ j <= Len(completed)
            /\ completed[j] = Builders[j]
            /\ OutputFile(Builders[j]) \in written
  /\ \A i \in 1..3 :
       Builders[i] \in propagated =>
         \A j \in (i + 1)..3 : ~InSeq(Builders[j], started)

C2_Witness ==
  /\ pc = "done"
  /\ ModelPerformance \in propagated
  /\ started = <<ExecutiveDashboard, ModelPerformance>>
  /\ completed = <<ExecutiveDashboard>>
  /\ written = {OutputFile(ExecutiveDashboard)}

\* A failure of the run: the loader returned None, or a builder raised.
RunFailed == Loaded /\ (IsNone(df) \/ propagated # {})

\* C3: main() always returns normally: whatever fails (the loader, or any of
\* the three builders), the failure is caught and reported on the console, no
\* exception leaves main(), and the run reaches its end.
C3_MainReturnsNormally ==
  /\ [](~uncaught)
  /\ []((pc = "done" /\ RunFailed) =>
          \/ InSeq("Failed to load data. Exiting", console)
          \/ InSeq("Error generating visualizations", console))
  /\ (pc = "load" ~> pc = "done")

C3_Witness ==
  /\ pc = "done"
  /\ CustomerSegmentation \in propagated
  /\ ~uncaught
  /\ console[Len(console)] = "Error generating visualizations"

\* C4 as stated: every stage catches its own exceptions, so no stage lets an
\* exception escape to main().
C4_NoStagePropagates == propagated = {}

\* C4 as amended: the loader catches its own exceptions, logs them and returns
\* (None, None); a chart builder catches nothing: its exception escapes to
\* main(), whose single except clause catches and logs it and ends the run.
C4_OnlyLoaderCatchesItsOwn ==
  /\ "load_and_prepare_data" \notin propagated
  /\ (Loaded /\ LoadFails(csv)) =>
       (IsNone(df) /\ InSeq("Error loading data", console))
  /\ \A b \in propagated :
       /\ InSeq(b, Builders)
       /\ pc = "done"
       /\ ~uncaught
       /\ console[Len(console)] = "Error generating visualizations"
       /\ ~InSeq(b, completed)

C4_Witness ==
  /\ pc = "done"
  /\ propagated = {ExecutiveDashboard}
  /\ HasTable
  /\ console[Len(console)] = "Error generating visualizations"

\* The three binned columns: value read, breakpoints, labels, band written.
Binned(r) ==
  { [x |-> r.spend, bins |-> spend_bins, labels |-> spend_labels,
     band |-> r.customer_value_tier],
    [x |-> r.freq, bins |-> freq_bins, labels |-> freq_labels,
     band |-> r.activity_level],
    [x |-> r.life, bins |-> lifetime_bins, labels |-> lifetime_labels,
     band |-> r.tenure_category] }

Bands == IF HasTable THEN UNION { Binned(df[1][i]) : i \in 1..Len(df[1]) } ELSE {}

\* C5 as stated: bins are closed on the left: a value equal to a breakpoint
\* other than the topmost gets the bin whose lower bound it is (spend 100 ->
\* Standard, frequency 1 -> Moderate, lifetime 3 -> Developing, 0 -> first bin).
C5_LeftClosedBins ==
  \A c \in Bands : \A i \in 1..4 : c.x = c.bins[i] => c.band = c.labels[i]

\* C5 as amended: bins are open on the left and closed on the right: a value
\* equal to a breakpoint other than the lowest gets the bin whose upper bound
\* it is (spend 100 -> Basic, frequency 1 -> Low, lifetime 3 -> New (0-3m),
\* 600 -> VIP), and a value of exactly 0 gets no band (missing).
C5_RightClosedBins ==
  \A c \in Bands :
    /\ \A i \in 2..5 : c.x = c.bins[i] => c.band = c.labels[i - 1]
    /\ c.x = c.bins[1] => c.band = NaN

C5_Witness ==
  /\ HasTable
  /\ \E i \in 1..Len(df[1]) :
       df[1][i].life = 3 /\ df[1][i].tenure_category = "New (0-3m)"
  /\ \E i \in 1..Len(df[1]) :
       /\ df[1][i].spend = 0 /\ df[1][i].customer_value_tier = NaN
       /\ df[1][i].life = 0 /\ df[1][i].tenure_category = NaN

\* C6: a value equal to an interior breakpoint (100/200/300, 1/2/3, 3/6/12)
\* gets the lower of the two adjacent bins (spend 100 -> Basic, spend 200 ->
\* Standard, lifetime 12 -> Established).
C6_InteriorBreakpointLowerBin ==
  \A c \in Bands : \A i \in 2..4 : c.x = c.bins[i] => c.band = c.labels[i - 1]

C6_Witness ==
  /\ HasTable
  /\ \E i \in 1..Len(df[1]) :
       /\ df[1][i].spend = 100 /\ df[1][i].customer_value_tier = "Basic"
       /\ df[1][i].life = 12 /\ df[1][i].tenure_category = "Established (6-12m)"
  /\ \E i \in 1..Len(df[1]) :
       /\ df[1][i].spend = 200 /\ df[1][i].customer_value_tier = "Standard"
       /\ df[1][i].freq = 1 /\ df[1][i].activity_level = "Low"

\* C7: a value at the upper bound of the full range (600, 10, 50) gets the
\* last bin (VIP, Super Active, Veteran); a value below 0 or above the top
\* breakpoint gets a missing band, not a label and not an error.
C7_TopIncludedOutsideMissing ==
  /\ \A c \in Bands :
       /\ c.x = c.bins[5] => c.band = c.labels[4]
       /\ (c.x < c.bins[1] \/ c.x > c.bins[5]) => c.band = NaN
  /\ (Loaded /\ ~LoadFails(csv)) => HasTable

C7_Witness ==
  /\ HasTable
  /\ \E i \in 1..Len(df[1]) :
       /\ df[1][i].spend = 600 /\ df[1][i].customer_value_tier = "VIP"
       /\ df[1][i].freq = -1 /\ df[1][i].activity_level = NaN
  /\ \E i \in 1..Len(df[1]) :
       df[1][i].spend = 601 /\ df[1][i].customer_value_tier = NaN

Labels(q) == { q[i] : i \in 1..Len(q) }

\* C8: after a successful load every row's customer_value_tier,
\* activity_level and tenure_category is one of that column's four labels or
\* missing, and the derivation keeps the row count and the original columns.
C8_BandsValidRowsKept ==
  HasTable =>
    /\ \A c \in Bands : c.band \in Labels(c.labels) \cup {NaN}
    /\ Len(df[1]) = Len(csv.rows)
    /\ \A i \in 1..Len(df[1]) :
         /\ df[1][i].spend = csv.rows[i].spend
         /\ df[1][i].freq = csv.rows[i].freq
         /\ df[1][i].life = csv.rows[i].life
         /\ df[1][i].churn = csv.rows[i].churn

C8_Witness ==
  /\ HasTable
  /\ Len(df[1]) = 2
  /\ \E c \in Bands : c.band = NaN
  /\ \E c \in Bands : c.band = "Premium"
  /\ \E c \in Bands : c.band = "Low"

\* C9: after a successful load every row's Cluster is in 0..4 and its
\* Archetype is archetype_names[Cluster], a non-empty string, never missing;
\* the map from id to name has exactly the ids 0..4 and is injective.
C9_ArchetypeTotalInjective ==
  HasTable =>
    /\ ~IsNone(archetype_names)
    /\ DOMAIN archetype_names[1] = 0..4
    /\ \A a, b \in 0..4 :
         archetype_names[1][a] = archetype_names[1][b] => a = b
    /\ \A i \in 1..Len(df[1]) :
         /\ df[1][i].Cluster \in 0..4
         /\ df[1][i].Archetype = archetype_names[1][df[1][i].Cluster]
         /\ df[1][i].Archetype \notin {"", NaN}

C9_Witness ==
  /\ HasTable
  /\ Len(df[1]) = 2
  /\ df[1][1].Cluster = 1 /\ df[1][1].Archetype = "Active Independents"
  /\ df[1][2].Cluster = 4 /\ df[1][2].Archetype = "Decision Pending"

\* The current run and the remembered earlier run loaded tables of the same
\* number of rows.
SameRowCount ==
  HasTable /\ ~IsNone(previous) /\ Len(previous[1].rows) = Len(df[1])

\* C10: the Cluster column depends on the number of rows only: two runs on
\* tables with the same row count get the identical Cluster column, whatever
\* the other attribute values of the rows are.
C10_ClustersDependOnRowCountOnly ==
  SameRowCount => ClusterColumn(df[1]) = previous[1].Cluster

C10_Witness ==
  /\ SameRowCount
  /\ Len(df[1]) = 2
  /\ \A i \in 1..Len(df[1]) :
       /\ df[1][i].spend # previous[1].rows[i].spend
       /\ df[1][i].freq # previous[1].rows[i].freq
       /\ df[1][i].life # previous[1].rows[i].life
       /\ df[1][i].churn # previous[1].rows[i].churn
  /\ ClusterColumn(df[1]) = previous[1].Cluster

Abs(n) == IF n < 0 THEN -n ELSE n

\* C11: the confusion matrix built for total_test = 1000 has four
\* non-negative integer cells that sum to 1000, and agrees with the Logistic
\* Regression literals to within one percentage point each: recall
\* TP/(TP+FN) = 81.9%, precision TP/(TP+FP) = 86.8%, accuracy
\* (TP+TN)/1000 = 91.9%.
C11_ConfusionMatrixConsistent ==
  ~IsNone(confusion_data) =>
    LET TN == confusion_data[1][1][1]
        FP == confusion_data[1][1][2]
        FN == confusion_data[1][2][1]
        TP == confusion_data[1][2][2]
    IN /\ TN >= 0 /\ FP >= 0 /\ FN >= 0 /\ TP >= 0
       /\ TN + FP + FN + TP = 1000
       /\ Abs(1000 * TP - recall_lr * (TP + FN)) <= 10 * (TP + FN)
       /\ Abs(1000 * TP - precision_lr * (TP + FP)) <= 10 * (TP + FP)
       /\ Abs((TP + TN) - accuracy_lr) <= 10

====
